---- MODULE Spec2Model ----
EXTENDS Integers, Sequences, FiniteSets, TLC

(* Units: topic importance in thousandths, hours in hundredths of an hour,  *)
(* minutes as exact rationals <<num, den>>.  Python's round() and int() on *)
(* binary floats are modelled on the exact rational value; where the exact *)
(* value sits on a rounding boundary the float result may fall on either   *)
(* side, so both outcomes are kept.                                         *)

MaxTopics == 2
MaxAllocTopics == 3
MaxQ == 3
MaxPredQ == 3
MaxTopN == 4
MaxFreq == 3
MaxScoreQ == 3

\* importance_scores values per question id; -1 stands for "absent from the map"
QImpGrid == {-1, 0, 900}
\* topic_importance values (thousandths) for the allocator's own specification
ImpGrid == {0, 100, 500, 900}
\* total_hours / available_hours (hundredths)
HoursGrid == {0, 50, 100, 150, 333, 1000}
ReqHours == {50, 100, 500, 1000}
StudyDurations == {0, 25, 200}

MinHours == 50
MaxRequestHours == 1000
CurrentYear == 2025
\* years[i] of calculate_importance_scores; 0 stands for an absent / falsy year
YearGrid == {0, 2000, 2016, 2020, 2025, 2026}
MaxDailyTime == 240

Max(a, b) == IF a >= b THEN a ELSE b
Min(a, b) == IF a <= b THEN a ELSE b

RECURSIVE SumSeq(_)
SumSeq(s) == IF s = <<>> THEN 0 ELSE Head(s) + SumSeq(Tail(s))

RECURSIVE GCD(_, _)
GCD(a, b) == IF b = 0 THEN a ELSE GCD(b, a % b)

Norm(n, d) == LET g == GCD(n, d) IN IF g = 0 THEN <<0, 1>> ELSE <<n \div g, d \div g>>

\* Python round(n/d) for n >= 0, d > 0; on an exact .5 both neighbours
RoundSet(n, d) ==
  LET q == n \div d
      r == n % d
  IN IF 2 * r < d THEN {q} ELSE IF 2 * r > d THEN {q + 1} ELSE {q, q + 1}

\* allocated hours are the doubles round(x, 2); h hundredths is exact as a double
\* only when h/100 is a multiple of 1/4, and then hours * 60 is exact too
ExactHours(h) == h % 25 = 0

\* Python int() of the float n/d (n >= 0); when the dividend is an inexact float,
\* an exact integer quotient may come out one below
IntSet(n, d, exact) ==
  IF n % d = 0 /\ n > 0 /\ ~exact THEN {n \div d, n \div d - 1} ELSE {n \div d}

\* all sequences s of length n with s[k] \in F[k]
Choices(n, F) == {s \in [1..n -> UNION {F[k] : k \in 1..n}] : \A k \in 1..n : s[k] \in F[k]}

\* as Choices, where positions with the same key (the same float computation
\* on the same operands) take the same outcome
ChoicesBy(n, F, key) ==
  {s \in Choices(n, F) : \A j, k \in 1..n : key[j] = key[k] => s[j] = s[k]}

(* _allocate_time_to_topics: the set of results the code can return *)
FlooredNoBudget(p, th) ==
  [k \in 1..Len(p) |-> IF p[k] < MinHours THEN MinHours ELSE p[k]]

Floored(p, th) ==
  [k \in 1..Len(p) |-> IF p[k] < MinHours /\ th >= MinHours * Len(p) THEN MinHours ELSE p[k]]

NormalizedSubtractDrift(f, th) ==
  {[k \in 1..Len(f) |-> f[k] - (SumSeq(f) - th)]}

Normalized(f, th) ==
  LET cur == SumSeq(f) IN
  IF cur > 0 THEN ChoicesBy(Len(f), [k \in 1..Len(f) |-> RoundSet(f[k] * th, cur)], f)
  ELSE {f}

AllocSetDropZero(timp, th) ==
  LET n == Len(timp)
      tot == SumSeq(timp)
  IN IF n = 0 \/ tot = 0 THEN {<<>>}
     ELSE UNION {Normalized(Floored(p, th), th) :
                   p \in Choices(n, [k \in 1..n |-> RoundSet(timp[k] * th, tot)])}

\* proportional share computed from total - importance instead of importance
AllocSetInverse(timp, th) ==
  LET n == Len(timp)
      tot == SumSeq(timp)
      inv == [k \in 1..n |-> tot - timp[k]]
  IN IF n = 0 THEN {<<>>}
     ELSE IF tot = 0 \/ SumSeq(inv) = 0 THEN {[k \in 1..n |-> r] : r \in RoundSet(th, n)}
     ELSE UNION {Normalized(Floored(p, th), th) :
                   p \in ChoicesBy(n, [k \in 1..n |-> RoundSet(inv[k] * th, SumSeq(inv))], inv)}

AllocSet(timp, th) ==
  LET n == Len(timp)
      tot == SumSeq(timp)
  IN IF n = 0 THEN {<<>>}
     ELSE IF tot = 0 THEN {[k \in 1..n |-> r] : r \in RoundSet(th, n)}
     ELSE UNION {Normalized(Floored(p, th), th) :
                   p \in ChoicesBy(n, [k \in 1..n |-> RoundSet(timp[k] * th, tot)], timp)}

RatAdd(a, b) == Norm(a[1] * b[2] + b[1] * a[2], a[2] * b[2])

(* _calculate_topic_importance: round(0.7 * avg + 0.3 * min(1, len/10), 3) *)
ImpOrDefault(v, dflt) == IF v = -1 THEN dflt ELSE v

TopicImpSetEmptyHalf(qs, imps) ==
  IF Len(qs) = 0 THEN {350}
  ELSE LET S == SumSeq([j \in 1..Len(qs) |-> ImpOrDefault(imps[qs[j]], 500)])
           W == Min(1000, 100 * Len(qs))
       IN RoundSet(7 * S + 3 * W * Len(qs), 10 * Len(qs))

TopicImpSet(qs, imps) ==
  IF Len(qs) = 0 THEN {0}
  ELSE LET S == SumSeq([j \in 1..Len(qs) |-> ImpOrDefault(imps[qs[j]], 500)])
           W == Min(1000, 100 * Len(qs))
       IN RoundSet(7 * S + 3 * W * Len(qs), 10 * Len(qs))

(* sorted(..., key=..., reverse=True): stable, equal keys keep input order *)
RECURSIVE SortIdx(_, _)
SortIdx(vals, rem) ==
  IF rem = {} THEN <<>>
  ELSE LET best == CHOOSE k \in rem : \A j \in rem : vals[j] < vals[k] \/ (vals[j] = vals[k] /\ k <= j)
       IN <<best>> \o SortIdx(vals, rem \ {best})

SortedTopicsTiesReversed(hours) ==
  LET n == Len(hours)
      r == [i \in 1..n |-> hours[n + 1 - i]]
  IN [j \in 1..n |-> n + 1 - SortIdx(r, 1..n)[j]]

SortedTopics(hours) == SortIdx(hours, DOMAIN hours)

SortedQuestionsTiesReversed(qs, imps) ==
  LET rq == [i \in 1..Len(qs) |-> qs[Len(qs) + 1 - i]]
      ord == SortIdx([i \in 1..Len(rq) |-> ImpOrDefault(imps[rq[i]], 0)], 1..Len(rq))
  IN [j \in 1..Len(rq) |-> rq[ord[j]]]

SortedQuestions(qs, imps) ==
  LET ord == SortIdx([i \in 1..Len(qs) |-> ImpOrDefault(imps[qs[i]], 0)], 1..Len(qs))
  IN [j \in 1..Len(qs) |-> qs[ord[j]]]

(* _create_study_sessions helpers; minutes of h hundredths of an hour = 3h/5 *)
\* max(1, int(total_minutes / study_duration)) with total_minutes = hours * 60
\* a float: when it falls below the exact value, an exact integer quotient
\* may come out one below
NumSessions(h, dur) ==
  LET q == (3 * h) \div (5 * dur)
  IN IF ~ExactHours(h) /\ (3 * h) % (5 * dur) = 0 /\ q >= 2 THEN {q, q - 1} ELSE {Max(1, q)}

\* minutes_per_session = total_minutes / num_sessions
MinutesPerSession(h, ns) == Norm(3 * h, 5 * ns)

ChunkOfNoRemainder(tq, i, ns) ==
  LET qps == Max(1, Len(tq) \div ns)
      st == i * qps
  IN SubSeq(tq, st + 1, Min(st + qps, Len(tq)))

ChunkOf(tq, i, ns) ==
  LET qps == Max(1, Len(tq) \div ns)
      st == i * qps
      en == IF i < ns - 1 THEN st + qps ELSE Len(tq)
  IN SubSeq(tq, st + 1, Min(en, Len(tq)))

\* daily_study_time + minutes_per_session > max_daily_time (both sides when equal)
NewDaySetNoLookahead(dly, m) ==
  IF dly[1] > MaxDailyTime * dly[2] THEN {TRUE} ELSE {FALSE}

NewDaySet(dly, m) ==
  LET lhs == dly[1] * m[2] + m[1] * dly[2]
      rhs == MaxDailyTime * dly[2] * m[2]
  IN IF lhs > rhs THEN {TRUE} ELSE IF lhs = rhs THEN {TRUE, FALSE} ELSE {FALSE}

\* current_day += 1 when a new day is started
NextDaySkip(d, nd) == IF nd THEN d + 2 ELSE d

NextDay(d, nd) == IF nd THEN d + 1 ELSE d

SessImpSet(sq, imps) ==
  IF Len(sq) = 0 THEN {0}
  ELSE RoundSet(SumSeq([j \in 1..Len(sq) |-> ImpOrDefault(imps[sq[j]], 500)]), Len(sq))

NextSnumPerTopic(n, i, ns) == IF i + 1 < ns THEN n + 1 ELSE 0

NextSnum(n, i, ns) == n + 1

RECURSIVE SumDur(_)
SumDur(ss) == IF ss = <<>> THEN 0 ELSE Head(ss).dur + SumDur(Tail(ss))

TotalStudyHoursTrunc(ss) == {(100 * SumDur(ss)) \div 60}

\* round(sum(duration_minutes) / 60, 2) in hundredths
TotalStudyHours(ss) == RoundSet(100 * SumDur(ss), 60)

(* predict_important_questions: stable sort by importance_scores.get(q, 0.0)
   descending, then scored_questions[:top_n] *)
PySlicePrefix(sq, n) ==
  IF n >= 0 THEN SubSeq(sq, 1, Min(n, Len(sq))) ELSE SubSeq(sq, 1, Max(0, Len(sq) + n))

PredictImportantAsc(qs, imps, n) ==
  LET ord == SortIdx([i \in 1..Len(qs) |-> -ImpOrDefault(imps[qs[i]], 0)], 1..Len(qs))
  IN PySlicePrefix([j \in 1..Len(qs) |-> qs[ord[j]]], n)

PredictImportantTiesReversed(qs, imps, n) ==
  LET rq == [i \in 1..Len(qs) |-> qs[Len(qs) + 1 - i]]
      ord == SortIdx([i \in 1..Len(rq) |-> ImpOrDefault(imps[rq[i]], 0)], 1..Len(rq))
  IN PySlicePrefix([j \in 1..Len(rq) |-> rq[ord[j]]], n)

PredictImportant(qs, imps, n) ==
  LET ord == SortIdx([i \in 1..Len(qs) |-> ImpOrDefault(imps[qs[i]], 0)], 1..Len(qs))
  IN PySlicePrefix([j \in 1..Len(qs) |-> qs[ord[j]]], n)

(* calculate_importance_scores, the score of one question (nlp_service.py
   lines 385-399): recency in tenths, topic score as a rational <<n, d>> *)
RecencyNoFloor(year) == IF year = 0 THEN 5 ELSE 10 - (CurrentYear - year)

RecencyCapped(year) == IF year = 0 THEN 5 ELSE Min(10, Max(0, 10 - (CurrentYear - year)))

Recency(year) == IF year = 0 THEN 5 ELSE Max(0, 10 - (CurrentYear - year))

TopicScore(intopic, tqc, nq, nt) ==
  IF intopic THEN <<Min(nq, tqc * nt), nq>> ELSE <<1, 2>>

\* round(0.4 * fc / mf + 0.3 * recency + 0.3 * topic, 3) in thousandths
ScoreSet(fc, mf, year, intopic, tqc, nq, nt) ==
  LET t == TopicScore(intopic, tqc, nq, nt)
  IN RoundSet(400 * fc * t[2] + 30 * Recency(year) * mf * t[2] + 300 * t[1] * mf, mf * t[2])

VARIABLES pc, topics, imp, th, sd, tImp, topicHours, ti, si,
          day, daily, snum, sessions, totalHours, totalSessions,
          input, output

vars == <<pc, topics, imp, th, sd, tImp, topicHours, ti, si,
          day, daily, snum, sessions, totalHours, totalSessions,
          input, output>>

\* arguments and result of the stand-alone operations (predictor, scorer, request)
ioVars == <<input, output>>

Reset ==
  /\ topicHours = <<>> /\ ti = 1 /\ si = 0
  /\ day = 1 /\ daily = <<0, 1>> /\ snum = 0 /\ sessions = <<>>
  /\ totalHours = 0 /\ totalSessions = 0
  /\ input = <<>> /\ output = <<>>

\* _allocate_time_to_topics(topic_importance, total_hours)
Allocate ==
  /\ pc = "allocate"
  /\ \E res \in AllocSet(tImp, th) : topicHours' = res
  /\ pc' = "pack"
  /\ UNCHANGED ioVars
  /\ UNCHANGED <<topics, imp, th, sd, tImp, ti, si, day, daily, snum,
                 sessions, totalHours, totalSessions>>

AllocInit ==
  /\ pc = "allocate"
  /\ \E n \in 0..MaxAllocTopics : tImp \in [1..n -> ImpGrid]
  /\ th \in HoursGrid
  /\ topics = <<>> /\ imp = <<>> /\ sd = 25
  /\ Reset

AllocNext == Allocate

AllocSpec == AllocInit /\ [][AllocNext]_vars

Offset(sizes, k) == SumSeq(SubSeq(sizes, 1, k - 1))

\* the worked scenario of the planner: {Algorithms: [q1, q2, q3], Databases: [q4]},
\* {q1: 0.9, q2: 0.8, q3: 0.7, q4: 0.5}, 5 hours, 25-minute sessions
ScenarioInput ==
  /\ topics = <<<<1, 2, 3>>, <<4>>>>
  /\ imp = <<900, 800, 700, 500>>
  /\ th = 500
  /\ sd = 25

\* one topic with more than 10 questions (question weight capped at 1.0)
LargeTopicInput ==
  /\ topics = <<[j \in 1..11 |-> j]>>
  /\ imp = [j \in 1..11 |-> IF j % 2 = 0 THEN 900 ELSE -1]
  /\ th = 100
  /\ sd = 25

\* four equal topics whose proportional share of 5.18 h is a rounding tie
RoundingInput ==
  /\ topics = [k \in 1..4 |-> <<k>>]
  /\ imp = [j \in 1..4 |-> 500]
  /\ th = 518
  /\ sd = 25

\* 2.05 h at 41-minute sessions: 2.05 * 60 is the float 122.99999999999999
FloatInput ==
  /\ topics = <<<<1>>>>
  /\ imp = <<900>>
  /\ th = 205
  /\ sd = 41

\* generate_schedule(topics, importance_scores, available_hours, study_duration)
Init ==
  /\ pc = "importance"
  /\ \/ /\ \E n \in 1..MaxTopics :
             \E sizes \in [1..n -> 0..MaxQ] :
               /\ SumSeq(sizes) <= MaxQ
               /\ topics = [k \in 1..n |-> [j \in 1..sizes[k] |-> Offset(sizes, k) + j]]
               /\ imp \in [1..SumSeq(sizes) -> QImpGrid]
        /\ th \in ReqHours
        /\ sd \in StudyDurations
     \/ ScenarioInput
     \/ LargeTopicInput
     \/ RoundingInput
     \/ FloatInput
  /\ tImp = <<>>
  /\ Reset

\* topic_importance = self._calculate_topic_importance(topics, importance_scores)
CalcImportance ==
  /\ pc = "importance"
  /\ \E res \in Choices(Len(topics), [k \in 1..Len(topics) |-> TopicImpSet(topics[k], imp)]) :
       tImp' = res
  /\ pc' = "allocate"
  /\ UNCHANGED ioVars
  /\ UNCHANGED <<topics, imp, th, sd, topicHours, ti, si, day, daily, snum,
                 sessions, totalHours, totalSessions>>

\* one iteration of the inner loop of _create_study_sessions (lines 206-233)
PackStep ==
  /\ pc = "pack"
  /\ ti <= Len(SortedTopics(topicHours))
  /\ sd /= 0
  /\ LET k == SortedTopics(topicHours)[ti]
         h == topicHours[k]
     \* num_sessions and int(minutes_per_session) are computed once per topic
     IN \E ns \in (IF si = 0 THEN NumSessions(h, sd) ELSE {sessions[Len(sessions)].ns}) :
        LET m == MinutesPerSession(h, ns)
            sq == ChunkOf(SortedQuestions(topics[k], imp), si, ns)
        IN \E nd \in NewDaySet(daily, m),
              dur \in (IF si = 0 THEN IntSet(m[1], m[2], ExactHours(h))
                                 ELSE {sessions[Len(sessions)].dur}),
              sc \in SessImpSet(sq, imp) :
          LET base == IF nd THEN <<0, 1>> ELSE daily
          IN /\ day' = NextDay(day, nd)
             /\ daily' = RatAdd(base, m)
             /\ sessions' = Append(sessions, [topic |-> k, ns |-> ns, dur |-> dur, mins |-> m, imp |-> sc,
                                              qs |-> sq, day |-> day', num |-> snum])
             /\ snum' = NextSnum(snum, si, ns)
             /\ IF si + 1 < ns THEN si' = si + 1 /\ ti' = ti ELSE si' = 0 /\ ti' = ti + 1
  /\ UNCHANGED ioVars
  /\ UNCHANGED <<pc, topics, imp, th, sd, tImp, topicHours, totalHours, totalSessions>>

\* total_minutes / study_duration with study_duration = 0 (line 193) raises
\* ZeroDivisionError, which generate_schedule logs and re-raises (lines 75-77)
PackRaiseSwallowed ==
  /\ pc = "pack"
  /\ ti <= Len(SortedTopics(topicHours))
  /\ sd = 0
  /\ pc' = "done" /\ totalSessions' = 0 /\ totalHours' = 0
  /\ UNCHANGED ioVars
  /\ UNCHANGED <<topics, imp, th, sd, tImp, topicHours, ti, si, day, daily, snum, sessions>>

PackRaise ==
  /\ pc = "pack"
  /\ ti <= Len(SortedTopics(topicHours))
  /\ sd = 0
  /\ pc' = "raised"
  /\ UNCHANGED ioVars
  /\ UNCHANGED <<topics, imp, th, sd, tImp, topicHours, ti, si, day, daily, snum,
                 sessions, totalHours, totalSessions>>

\* end of the loop and lines 57-73 of generate_schedule
Assemble ==
  /\ pc = "pack"
  /\ ti > Len(SortedTopics(topicHours))
  /\ totalSessions' = Len(sessions)
  /\ \E t \in TotalStudyHours(sessions) : totalHours' = t
  /\ pc' = "done"
  /\ UNCHANGED ioVars
  /\ UNCHANGED <<topics, imp, th, sd, tImp, topicHours, ti, si, day, daily, snum, sessions>>

\* the planner's state before generate_schedule is called
PlannerIdle ==
  /\ topics = <<>> /\ imp = <<>> /\ th = 0 /\ sd = 25 /\ tImp = <<>>
  /\ topicHours = <<>> /\ ti = 1 /\ si = 0 /\ day = 1 /\ daily = <<0, 1>>
  /\ snum = 0 /\ sessions = <<>> /\ totalHours = 0 /\ totalSessions = 0

\* predict_important_questions(questions, importance_scores, top_n)
Predict ==
  /\ pc = "predict"
  /\ output' = PredictImportant(input.qs, input.imps, input.topn)
  /\ pc' = "predicted"
  /\ UNCHANGED input
  /\ UNCHANGED <<topics, imp, th, sd, tImp, topicHours, ti, si, day, daily, snum,
                 sessions, totalHours, totalSessions>>

\* questions q1..qL (distinct texts, in input order), their scores (-1: absent
\* from the map) and top_n
PredictInit ==
  /\ pc = "predict"
  /\ \E L \in 0..MaxPredQ :
       \E imps \in [1..L -> QImpGrid \cup {500}], n \in 0..MaxTopN :
         input = [qs |-> [i \in 1..L |-> i], imps |-> imps, topn |-> n]
  /\ output = <<>>
  /\ PlannerIdle

PredictSpec == PredictInit /\ [][Predict]_vars

\* topics = {k: v for k, v in topics.items() if k in topics_to_include},
\* applied only when topics_to_include is truthy (not None, not [])
FilterTopicsIgnore(classified, inc) == classified

FilterTopics(classified, inc) ==
  IF inc.given /\ inc.names /= {} THEN classified \cap inc.names ELSE classified

\* StudyScheduleRequest validation: Field(gt=0) and validate_hours (v > 1000)
ValidateRequest ==
  /\ pc = "request"
  /\ pc' = IF input.hours <= 0 \/ input.hours > 100 * MaxRequestHours
           THEN "rejected" ELSE "handler"
  /\ UNCHANGED input /\ UNCHANGED output
  /\ UNCHANGED <<topics, imp, th, sd, tImp, topicHours, ti, si, day, daily, snum,
                 sessions, totalHours, totalSessions>>

\* api generate_schedule up to the planner call: no questions -> 400, classify,
\* filter, empty topic set -> 400, otherwise the planner is called
HandleRequest ==
  /\ pc = "handler"
  /\ IF input.nquestions = 0 \/ FilterTopics(input.classified, input.include) = {}
     THEN pc' = "rejected" /\ output' = <<>>
     ELSE pc' = "planning" /\ output' = FilterTopics(input.classified, input.include)
  /\ UNCHANGED input
  /\ UNCHANGED <<topics, imp, th, sd, tImp, topicHours, ti, si, day, daily, snum,
                 sessions, totalHours, totalSessions>>

\* available_hours (hundredths), topics_to_include (None: given = FALSE),
\* topic names returned by classify_questions, number of stored questions
RequestInit ==
  /\ pc = "request"
  /\ \E h \in {-100, 0, 1, 50, 100 * MaxRequestHours, 100 * MaxRequestHours + 1},
        inc \in {[given |-> FALSE, names |-> {}]} \cup
               {[given |-> TRUE, names |-> S] : S \in SUBSET {"A", "C"}},
        cl \in SUBSET {"A", "B"}, nq \in {0, 2} :
       input = [hours |-> h, include |-> inc, classified |-> cl, nquestions |-> nq]
  /\ output = <<>>
  /\ PlannerIdle

\* one question: frequency_map.get(q, 1) = fc, max_freq = mf, years[i], whether
\* it belongs to a topic, that topic's size, len(questions), len(topics)
ScoreInit ==
  /\ pc = "score"
  /\ \E mf \in 1..MaxFreq, nq \in 1..MaxScoreQ, yr \in YearGrid, it \in BOOLEAN :
       \E fc \in 1..mf, tqc \in 1..nq, nt \in 1..nq :
         input = [fc |-> fc, mf |-> mf, year |-> yr, intopic |-> it,
                  tqc |-> tqc, nq |-> nq, nt |-> nt]
  /\ output = <<>>
  /\ PlannerIdle

Score ==
  /\ pc = "score"
  /\ \E v \in ScoreSet(input.fc, input.mf, input.year, input.intopic,
                       input.tqc, input.nq, input.nt) : output' = v
  /\ pc' = "scored"
  /\ UNCHANGED input
  /\ UNCHANGED <<topics, imp, th, sd, tImp, topicHours, ti, si, day, daily, snum,
                 sessions, totalHours, totalSessions>>

ScoreSpec == ScoreInit /\ [][Score]_vars

RequestNext == ValidateRequest \/ HandleRequest

RequestSpec == RequestInit /\ [][RequestNext]_vars

Next == CalcImportance \/ Allocate \/ PackStep \/ PackRaise \/ Assemble

Spec == Init /\ [][Next]_vars


TopicCount == Len(tImp)
TotalImportance == SumSeq(tImp)
Allocated == pc \notin {"importance", "allocate"}

Abs(x) == IF x < 0 THEN -x ELSE x

\* C1: for every non-empty importance map and total_hours >= 0 the allocated
\* hours sum to total_hours within 1e-6 relative tolerance.
C1_AllocationConservation ==
  (Allocated /\ TopicCount > 0) => 1000000 * Abs(SumSeq(topicHours) - th) <= th

\* C2: with an all-zero importance map of size k and total_hours = 10 every
\* topic gets exactly 10/k hours.
C2_EqualWeightFallback ==
  (Allocated /\ TopicCount > 0 /\ th = 1000 /\ TotalImportance = 0)
    => \A k \in 1..TopicCount : topicHours[k] * TopicCount = th

\* Proportional allocation rounded to 2 decimals and renormalized, with no
\* topic raised to the 0.5 h floor.
UnflooredAlloc(timp, th2) ==
  UNION {Normalized(p, th2) :
           p \in Choices(Len(timp), [k \in 1..Len(timp) |->
                          RoundSet(timp[k] * th2, SumSeq(timp))])}

ProportionalBelowFloor ==
  (Allocated /\ TotalImportance > 0 /\ th < MinHours * TopicCount)
    => topicHours \in UnflooredAlloc(tImp, th)

\* C3 (as stated): below the threshold the allocation stays proportional, and
\* {A:0.9, B:0.1} with total_hours = 1 yields A = 0.9, B = 0.1.
C3_FloorNotAppliedOriginal ==
  /\ ProportionalBelowFloor
  /\ (Allocated /\ tImp = <<900, 100>> /\ th = 100) => topicHours = <<90, 10>>

\* C3 (amended): whenever total_hours < 0.5 * topic_count the allocation stays
\* proportional (within 0.01 h, no floor); total_hours = 1 with two topics is the
\* threshold itself, where the floor applies and {A:0.9, B:0.1} yields
\* A = 0.64, B = 0.36.
C3_FloorNotApplied ==
  /\ ProportionalBelowFloor
  /\ (Allocated /\ tImp = <<900, 100>> /\ th = 100) => topicHours = <<64, 36>>

C3_Witness ==
  /\ Allocated /\ TotalImportance > 0 /\ th > 0 /\ th < MinHours * TopicCount
  /\ \E k \in 1..TopicCount : tImp[k] * th < MinHours * TotalImportance

\* C4: with a non-zero importance sum and total_hours >= 0.5 * topic_count every
\* topic gets >= 0.5 h after renormalization and the hours sum to total_hours.
C4_FloorApplied ==
  (Allocated /\ TotalImportance > 0 /\ th >= MinHours * TopicCount)
    => /\ \A k \in 1..TopicCount : topicHours[k] >= MinHours
       /\ 1000000 * Abs(SumSeq(topicHours) - th) <= th


Done == pc = "done"

RECURSIVE TopicQuestions(_, _)
TopicQuestions(ss, k) ==
  IF ss = <<>> THEN <<>>
  ELSE (IF Head(ss).topic = k THEN Head(ss).qs ELSE <<>>) \o TopicQuestions(Tail(ss), k)

\* C5: for every topic, the questions_to_cover of its sessions, concatenated in
\* session order, are exactly its questions sorted by importance descending.
C5_SessionCoverage ==
  Done => \A k \in 1..Len(topics) :
            TopicQuestions(sessions, k) = SortedQuestions(topics[k], imp)

C5_Witness ==
  /\ Done
  /\ \E k \in 1..Len(topics) :
       \E i \in 1..Len(sessions) :
         /\ sessions[i].topic = k
         /\ sessions[i].ns >= 2
         /\ Len(topics[k]) > sessions[i].ns
         /\ Len(topics[k]) % sessions[i].ns /= 0

RatGt(a, b) == a[1] * b[2] > b[1] * a[2]

\* C6: two consecutive sessions whose combined unrounded duration exceeds the
\* 240-minute daily cap are on different days.
C6_DayCapping ==
  \A i \in 1..(Len(sessions) - 1) :
    RatGt(RatAdd(sessions[i].mins, sessions[i + 1].mins), <<MaxDailyTime, 1>>)
      => sessions[i].day /= sessions[i + 1].day

C6_Witness ==
  /\ Done /\ sd = 200
  /\ \E i \in 1..(Len(sessions) - 1) :
       sessions[i].mins = <<200, 1>> /\ sessions[i + 1].mins = <<200, 1>>

RECURSIVE DayMinutes(_, _)
DayMinutes(ss, d) ==
  IF ss = <<>> THEN <<0, 1>>
  ELSE RatAdd(IF Head(ss).day = d THEN Head(ss).mins ELSE <<0, 1>>, DayMinutes(Tail(ss), d))

DaySessions(d) == {i \in 1..Len(sessions) : sessions[i].day = d}

\* C7: after any number of placed sessions, every day holding two or more
\* sessions has an unrounded total of at most 240 minutes.
C7_PerDayCap ==
  \A d \in {sessions[i].day : i \in 1..Len(sessions)} :
    Cardinality(DaySessions(d)) = 1 \/ ~RatGt(DayMinutes(sessions, d), <<MaxDailyTime, 1>>)

C7_Witness ==
  /\ Done
  /\ \E i \in 2..Len(sessions) : sessions[i].day = sessions[i - 1].day + 1
  /\ \E d \in {sessions[i].day : i \in 1..Len(sessions)} :
       /\ Cardinality(DaySessions(d)) >= 2
       /\ RatGt(DayMinutes(sessions, d), <<MaxDailyTime - 25, 1>>)

\* C8: the session_number of the i-th session is i (0-based), across topics.
C8_SessionNumbers ==
  \A i \in 1..Len(sessions) : sessions[i].num = i - 1

C8_Witness ==
  /\ Done
  /\ \E i \in 2..Len(sessions) :
       sessions[i].topic /= sessions[i - 1].topic /\ sessions[i - 1].num > 0

\* C9: total_sessions == len(sessions) and total_hours is sum(duration_minutes)/60
\* rounded to 2 decimals.
C9_ScheduleTotals ==
  Done => /\ totalSessions = Len(sessions)
          /\ Abs(60 * totalHours - 100 * SumDur(sessions)) <= 30

C9_Witness ==
  /\ Done /\ totalSessions >= 2
  /\ (100 * SumDur(sessions)) % 60 > 30

\* C10: every session has an integer duration_minutes >= 1 and a day >= 1.
C10_SessionBounds ==
  \A i \in 1..Len(sessions) : sessions[i].dur >= 1 /\ sessions[i].day >= 1


\* C11: every allocated value is >= 0, for importances in [0,1] and
\* total_hours >= 0.
C11_AllocationNonNegative ==
  Allocated => \A k \in DOMAIN topicHours : topicHours[k] >= 0

C11_Witness ==
  /\ Allocated /\ TotalImportance > 0 /\ th >= MinHours * TopicCount
  /\ \E k \in 1..TopicCount : tImp[k] * th < MinHours * TotalImportance

\* C20: the result is empty exactly when the importance map is empty, and
\* otherwise has the same keys (topic positions) as the input map.
C20_SameKeys ==
  Allocated => /\ (topicHours = <<>>) <=> (TopicCount = 0)
               /\ DOMAIN topicHours = DOMAIN tImp

C20_Witness ==
  /\ Allocated /\ TopicCount = MaxAllocTopics /\ TotalImportance = 0 /\ th > 0

\* C13: in the worked scenario Algorithms gets more hours than Databases, the
\* allocation sums to 5.00 h and the top-2 prediction is [q1, q2].
C13_Scenario ==
  (ScenarioInput /\ pc \in {"pack", "done"})
    => /\ topicHours[1] > topicHours[2]
       /\ SumSeq(topicHours) = 500
       /\ PredictImportant(<<1, 2, 3, 4>>, imp, 2) = <<1, 2>>

C13_Witness == ScenarioInput /\ Done

PredKey(q) == ImpOrDefault(input.imps[q], 0)

PredRange == {output[i] : i \in 1..Len(output)}

\* C14: the prediction is the first min(top_n, len(questions)) questions by
\* importance descending, equal importances in input order, and it never fails
\* when fewer than top_n questions exist.
C14_PredictTopN ==
  pc = "predicted" =>
    LET L == Len(input.qs)
        N == Min(input.topn, L)
    IN /\ Len(output) = N
       /\ PredRange \subseteq 1..L
       /\ \A i, j \in 1..N : i < j =>
            /\ output[i] /= output[j]
            /\ \/ PredKey(output[i]) > PredKey(output[j])
               \/ PredKey(output[i]) = PredKey(output[j]) /\ output[i] < output[j]
       /\ \A q \in (1..L) \ PredRange : \A i \in 1..N :
            \/ PredKey(q) < PredKey(output[i])
            \/ PredKey(q) = PredKey(output[i]) /\ q > output[i]

C14_Witness ==
  /\ pc = "predicted"
  /\ 0 < input.topn /\ input.topn < Len(input.qs)
  /\ \E i \in 1..Len(output) : \E q \in 1..Len(input.qs) :
       q /= output[i] /\ PredKey(q) = PredKey(output[i])

\* C15: a request with available_hours <= 0 or > 1000, or whose topic set is
\* empty after applying the topics_to_include allow-list, is rejected with an
\* error and never reaches planning.
C15_InputRejection ==
  pc = "planning" =>
    /\ input.hours > 0 /\ input.hours <= 100 * MaxRequestHours
    /\ (IF input.include.given THEN input.classified \cap input.include.names
                               ELSE input.classified) /= {}

\* C16: a request on which the planner raises (the only exception of the
\* modelled inputs: study_duration = 0 with at least one topic) never returns a
\* schedule; generate_schedule re-raises and ends in the raised state.
C16_ErrorPropagation ==
  Done => ~(sd = 0 /\ Len(topicHours) > 0)

C16_Witness == pc = "raised" /\ Len(topicHours) > 0

\* C17 (as stated): every importance score is in [0, 1] (thousandths 0..1000).
C17_ScoreInUnitOriginal ==
  pc = "scored" => 0 <= output /\ output <= 1000

\* C17 (amended): every importance score is in [0, 1] when the question's year is
\* absent or not after the current year (2025); a future year can exceed 1.
C17_ScoreInUnit ==
  (pc = "scored" /\ input.year <= CurrentYear) => 0 <= output /\ output <= 1000

C17_Witness ==
  pc = "scored" /\ input.year > 0 /\ input.year < CurrentYear - 10 /\ input.fc < input.mf

\* C18: the score is the 3-decimal rounding of 0.4*freq + 0.3*recency + 0.3*topic,
\* freq = frequency_count / max(max_frequency, 1), recency = 0.5 without a year,
\* else max(0, 1 - (current_year - year)/10) with no upper cap, topic = 0.5
\* without a topic, else min(1, topic_question_count / (total_questions / topic_count)).
ClaimScoreExact ==
  LET fr == <<input.fc, Max(input.mf, 1)>>
      rc == IF input.year = 0 THEN <<1, 2>>
            ELSE IF 10 - (CurrentYear - input.year) < 0 THEN <<0, 1>>
            ELSE <<10 - (CurrentYear - input.year), 10>>
      tp == IF ~input.intopic THEN <<1, 2>>
            ELSE IF input.tqc * input.nt >= input.nq THEN <<1, 1>>
            ELSE <<input.tqc * input.nt, input.nq>>
  IN \* 1000 * (0.4 fr + 0.3 rc + 0.3 tp) as <<num, den>>
     <<400 * fr[1] * rc[2] * tp[2] + 300 * rc[1] * fr[2] * tp[2] + 300 * tp[1] * fr[2] * rc[2],
       fr[2] * rc[2] * tp[2]>>

C18_ScoreFormula ==
  pc = "scored" =>
    2 * Abs(output * ClaimScoreExact[2] - ClaimScoreExact[1]) <= ClaimScoreExact[2]

C18_Witness ==
  pc = "scored" /\ input.year > CurrentYear /\ input.intopic /\ input.fc < input.mf

\* C19: each topic's importance is round(0.7 * mean(question importances) +
\* 0.3 * min(1.0, question_count / 10), 3), and 0.0 for an empty question list.
C19_TopicAggregation ==
  (pc /= "importance") =>
    \A k \in 1..Len(topics) :
      LET L == Len(topics[k])
          S == SumSeq([j \in 1..L |-> ImpOrDefault(imp[topics[k][j]], 500)])
      IN IF L = 0 THEN tImp[k] = 0
         ELSE 2 * Abs(10 * L * tImp[k] - (7 * S + 3 * Min(1000, 100 * L) * L)) <= 10 * L

C19_Witness ==
  /\ pc = "allocate"
  /\ \E k \in 1..Len(topics) : Len(topics[k]) = 0
  /\ \E k \in 1..Len(topics) : Len(topics[k]) >= 2

\* C30: allocation is monotone in importance: importance[a] >= importance[b]
\* implies hours[a] >= hours[b], after flooring and renormalization.
C30_AllocationMonotone ==
  Allocated => \A a, b \in 1..TopicCount :
                 tImp[a] >= tImp[b] => topicHours[a] >= topicHours[b]

C30_Witness ==
  /\ Allocated /\ TotalImportance > 0 /\ th >= MinHours * TopicCount
  /\ \E a, b \in 1..TopicCount : tImp[a] > tImp[b] /\ tImp[b] * th < MinHours * TotalImportance

\* C21: sessions of one topic are contiguous, topics appear in non-increasing
\* order of allocated hours, and topics with equal hours in map insertion order.
C21_TopicOrder ==
  \A i, j \in 1..Len(sessions) : i < j =>
    LET a == sessions[i].topic
        b == sessions[j].topic
    IN /\ topicHours[a] >= topicHours[b]
       /\ topicHours[a] = topicHours[b] => a <= b
       /\ a = b => \A l \in i..j : sessions[l].topic = a

C21_Witness ==
  /\ Done
  /\ \E i \in 1..(Len(sessions) - 1) :
       /\ sessions[i].topic /= sessions[i + 1].topic
       /\ topicHours[sessions[i].topic] = topicHours[sessions[i + 1].topic]
  /\ \E i \in 1..(Len(sessions) - 1) : sessions[i].topic = sessions[i + 1].topic

TopicSessions(k) == {i \in 1..Len(sessions) : sessions[i].topic = k}

\* C22: a topic with h allocated hours gets exactly max(1, floor(h*60 /
\* study_duration)) sessions, each of int(h*60 / num_sessions) minutes (the float
\* h*60 may fall just below an exact integer, giving one minute less).
C22_SessionCountAndLength ==
  Done => \A k \in DOMAIN topicHours :
    LET h == topicHours[k]
        ns == Max(1, (60 * h) \div (100 * sd))
        num == 60 * h
        den == 100 * ns
    IN /\ Cardinality(TopicSessions(k)) = ns
       /\ \A i \in TopicSessions(k) :
            \/ sessions[i].dur * den <= num /\ num < (sessions[i].dur + 1) * den
            \/ num % den = 0 /\ num > 0 /\ sessions[i].dur = num \div den - 1

PosIn(sq, x) == CHOOSE j \in 1..Len(sq) : sq[j] = x

\* C23: within a topic, questions are assigned to sessions in descending order
\* of importance, and questions of equal importance keep their input order.
C23_QuestionOrder ==
  Done => \A k \in 1..Len(topics) :
    LET tq == TopicQuestions(sessions, k)
    IN \A p, q \in 1..Len(tq) :
         (p < q /\ imp[tq[p]] /= -1 /\ imp[tq[q]] /= -1) =>
            /\ imp[tq[p]] >= imp[tq[q]]
            /\ imp[tq[p]] = imp[tq[q]] => PosIn(topics[k], tq[p]) < PosIn(topics[k], tq[q])

C23_Witness ==
  /\ Done
  /\ \E k \in 1..Len(topics) :
       LET tq == TopicQuestions(sessions, k)
       IN /\ tq /= topics[k]
          /\ \E p, q \in 1..Len(tq) : p < q /\ imp[tq[p]] /= -1 /\ imp[tq[p]] = imp[tq[q]]

\* C24: every session's importance_score is the mean importance of its
\* questions rounded to three decimals, and 0.5 when it has no question
\* (questions are identifiers here, so the 100-character truncation is not
\* represented).
C24_SessionImportance ==
  Done => \A i \in 1..Len(sessions) :
    LET sq == sessions[i].qs
    IN IF Len(sq) = 0 THEN sessions[i].imp = 500
       ELSE sessions[i].imp \in RoundSet(SumSeq([j \in 1..Len(sq) |-> ImpOrDefault(imp[sq[j]], 500)]), Len(sq))

\* C26 (as stated): the first session is on day 1 and every day from 1 to the
\* last session's day holds at least one session.
C26_DaysContiguousOriginal ==
  (Done /\ Len(sessions) > 0) =>
    /\ sessions[1].day = 1
    /\ \A d \in 1..sessions[Len(sessions)].day : DaySessions(d) /= {}

\* C26 (corrected): every day from the first session's day to the last holds a
\* session; the first session is on day 1 unless its unrounded length exceeds
\* 240 minutes, in which case it opens day 2 and day 1 stays empty (at exactly
\* 240 minutes the float comparison may go either way).
C26_DaysContiguous ==
  (Done /\ Len(sessions) > 0) =>
    /\ sessions[1].day \in
         IF RatGt(sessions[1].mins, <<MaxDailyTime, 1>>) THEN {2}
         ELSE IF RatGt(<<MaxDailyTime, 1>>, sessions[1].mins) THEN {1} ELSE {1, 2}
    /\ \A d \in sessions[1].day..sessions[Len(sessions)].day : DaySessions(d) /= {}

C26_Witness ==
  /\ Done
  /\ Len(sessions) > 0
  /\ RatGt(sessions[1].mins, <<MaxDailyTime, 1>>)
  /\ sessions[1].day = 2

\* C27: along the session list, day numbers never decrease and two consecutive
\* sessions differ in day by at most 1.
C27_DaysStep ==
  \A i \in 1..(Len(sessions) - 1) :
    sessions[i + 1].day \in {sessions[i].day, sessions[i].day + 1}

C27_Witness ==
  \E i \in 1..(Len(sessions) - 1) :
    /\ sessions[i + 1].day = sessions[i].day + 1
    /\ sessions[i + 1].topic = sessions[i].topic

\* C28: every input topic yields at least one session, and every session's
\* topic is one of the input topics.
C28_TopicsCovered ==
  Done => /\ \A k \in 1..Len(topics) : TopicSessions(k) /= {}
          /\ \A i \in 1..Len(sessions) : sessions[i].topic \in 1..Len(topics)

C28_Witness ==
  /\ Done
  /\ \E k \in 1..Len(topics) : topicHours[k] = 0 /\ TopicSessions(k) /= {}

\* C29: the returned total_hours never exceeds available_hours by more than
\* the 0.01 rounding of the total.
C29_TotalWithinBudget ==
  Done => totalHours <= th + 1
====
